---- MODULE Spec2Model ----
(***************************************************************************)
(* Limit order book matching engine (src/src/main.rs).                     *)
(*                                                                         *)
(* The book is two BTreeMap<u64, VecDeque<Order>>: a map is modelled as a  *)
(* function whose DOMAIN is the set of keys present, a VecDeque as a       *)
(* sequence (front = index 1).  add_order runs one of two matching         *)
(* routines; each routine is followed through its loop positions:          *)
(*   *_loop   the head of the outer while (peek + price check)             *)
(*   *_level  the inner while over the queue at the best price             *)
(*   *_park   the code after the outer loop                                *)
(* One trade step (one iteration of the inner while) is one action.        *)
(***************************************************************************)
EXTENDS Integers, Sequences, FiniteSets, TLC

\* ---- bounds of the model ----
MaxPrice  == 3
MaxQty    == 3
MaxOrders == 4
MaxFairOrders == 3
MaxAnyOrders == 3

Prices     == 1..MaxPrice
Quantities == 1..MaxQty

VARIABLES
    bids,        \* OrderBook.bids : price -> queue of orders
    asks,        \* OrderBook.asks : price -> queue of orders
    order,       \* the working copy `order` of the running add_order call
    best_price,  \* the local best_ask_price / best_bid_price
    pc,          \* position in the running call, "idle" between calls
    next_id,     \* the driver's loop index i, used as the order id
    incoming,    \* history: the order as it was handed to add_order
    bids0,       \* history: bids when the running/last call began
    asks0,       \* history: asks when the running/last call began
    fills,       \* history: the trade steps of the running/last call
    submitted,   \* history: every order handed to add_order, in order
    total_traded \* history: the total quantity total_traded by all calls so far

vars == <<bids, asks, order, best_price, pc, next_id, incoming, bids0, asks0, fills, submitted, total_traded>>

NoOrder == [id |-> 0, order_type |-> "None", price |-> 0, quantity |-> 0]

EmptyMap == [p \in {} |-> <<>>]

\* ---- BTreeMap / VecDeque helpers ----

SetMin(S) == CHOOSE x \in S : \A y \in S : x <= y
SetMax(S) == CHOOSE x \in S : \A y \in S : x >= y

\* BTreeMap::remove(&key)
MapRemove(m, k) == [p \in (DOMAIN m) \ {k} |-> m[p]]

\* mutant: the key is inserted with a fresh queue even when it is present
EntryOrInsert_reset(m, k) == [p \in (DOMAIN m) \cup {k} |-> IF p = k THEN <<>> ELSE m[p]]
\* BTreeMap::entry(key).or_insert_with(VecDeque::new)
EntryOrInsert(m, k) == [p \in (DOMAIN m) \cup {k} |-> IF p \in DOMAIN m THEN m[p] ELSE <<>>]

\* mutant: the minimum is replaced by the maximum
min_max(a, b) == IF a >= b THEN a ELSE b
\* std::cmp::min
min(a, b) == IF a <= b THEN a ELSE b

\* `a -= b` on a u32 leaves the range when b > a: a debug build panics, a
\* release build wraps to 2^32 - (b - a).  Either way the quantity is no
\* longer the true remainder; the call is then followed no further and
\* stays at the position "overflow".
Underflows(a, b) == b > a

\* mutant: the most expensive seller is peeked
best_ask_key_last(m) == SetMax(DOMAIN m)
\* self.asks.keys().next() : the first (lowest) key
best_ask_key(m) == SetMin(DOMAIN m)

\* mutant: the lowest bidder is peeked
best_bid_key_first(m) == SetMin(DOMAIN m)
\* self.bids.keys().next_back() : the last (highest) key
best_bid_key(m) == SetMax(DOMAIN m)

\* mutant: comparison inverted
ask_too_expensive_inv(best_ask_price, price) == best_ask_price < price
\* mutant: comparison made non-strict
ask_too_expensive_ge(best_ask_price, price) == best_ask_price >= price
\* `if best_ask_price > order.price { break; }`
ask_too_expensive(best_ask_price, price) == best_ask_price > price

\* mutant: comparison made non-strict
bid_too_low_le(best_bid_price, price) == best_bid_price <= price
\* `if best_bid_price < order.price { break; }`
bid_too_low(best_bid_price, price) == best_bid_price < price

\* mutant: the back of the queue is taken
front_mut_back(q) == Len(q)
\* orders_at_level.front_mut() : the position the mutable reference points at
front_mut(q) == 1

\* mutant: an exhausted resting order is never removed
resting_exhausted_never(q) == FALSE
\* mutant: the resting order is removed after every trade step
resting_exhausted_always(q) == TRUE
\* `if best_ask.quantity == 0` / `if best_bid.quantity == 0`
resting_exhausted(q) == q = 0

\* mutant: the emptied level is kept
level_exhausted_never(q) == FALSE
\* `if orders_at_level.is_empty()`
level_exhausted(q) == q = <<>>

\* mutant: the order is parked whatever is left of it
has_remainder_always(o) == TRUE
\* mutant: comparison made non-strict
has_remainder_ge(o) == o.quantity >= 0
\* `if order.quantity > 0` in front of the parking code
has_remainder(o) == o.quantity > 0

\* mutant: the order is put at the front of its queue
push_back_front(q, o) == <<o>> \o q
\* VecDeque::push_back(order.clone())
push_back(q, o) == Append(q, o)

\* mutant: the order is parked as it was handed in, not as matching left it
park_original(m, o) ==
    LET e == [p \in (DOMAIN m) \cup {o.price} |-> IF p \in DOMAIN m THEN m[p] ELSE <<>>]
    IN  [e EXCEPT ![o.price] = Append(e[o.price], incoming)]
\* map.entry(order.price).or_insert_with(VecDeque::new).push_back(order.clone())
park(m, o) ==
    LET e == EntryOrInsert(m, o.price)
    IN  [e EXCEPT ![o.price] = push_back(e[o.price], o)]

\* mutant: a partly filled resting order is put back at the end of its queue
queue_after_trade_requeue(q, nq) ==
    IF nq = 0 THEN Tail(q) ELSE Append(Tail(q), [q[1] EXCEPT !.quantity = nq])
\* one iteration of the inner while: the queue after the trade against its
\* front element, given the new quantity nq of that element
queue_after_trade(q, nq) ==
    LET i  == front_mut(q)
        q1 == [q EXCEPT ![i].quantity = nq]
    IN  IF resting_exhausted(nq) THEN Tail(q1) ELSE q1

\* the record of one trade step (history only)
Fill(side, q, o, trade_qty, nq, no, opp) ==
    [ side         |-> side,
      maker        |-> q[front_mut(q)].id,
      price        |-> q[front_mut(q)].price,
      level        |-> best_price,
      opp_keys     |-> DOMAIN opp,
      trade_qty    |-> trade_qty,
      taker_before |-> o.quantity,
      taker_after  |-> no,
      maker_before |-> q[front_mut(q)].quantity,
      maker_after  |-> nq ]

\* ---- the driver: main's loop body ----

Init ==
    /\ bids = EmptyMap
    /\ asks = EmptyMap
    /\ order = NoOrder
    /\ best_price = 0
    /\ pc = "idle"
    /\ next_id = 0
    /\ incoming = NoOrder
    /\ bids0 = EmptyMap
    /\ asks0 = EmptyMap
    /\ fills = <<>>
    /\ submitted = <<>>
    /\ total_traded = 0

\* OrderBook::add_order(order): dispatch on order.order_type
add_order(o) ==
    /\ pc = "idle"
    /\ order' = o
    /\ incoming' = o
    /\ bids0' = bids
    /\ asks0' = asks
    /\ fills' = <<>>
    /\ submitted' = Append(submitted, o)
    /\ pc' = IF o.order_type = "Buy" THEN "buy_loop" ELSE "sell_loop"
    /\ next_id' = next_id + 1
    /\ UNCHANGED <<bids, asks, best_price, total_traded>>

\* main: for i in 0..total_orders { ... book.add_order(order) }
Submit ==
    /\ next_id < MaxOrders
    /\ \E t \in {"Buy", "Sell"}, p \in Prices, q \in Quantities :
          add_order([id |-> next_id, order_type |-> t, price |-> p, quantity |-> q])

\* ---- match_buy_order ----

\* head of the outer while: loop test, peek, price check
match_buy_peek ==
    /\ pc = "buy_loop"
    /\ IF order.quantity > 0 /\ DOMAIN asks # {}
          /\ ~ask_too_expensive(best_ask_key(asks), order.price)
       THEN /\ best_price' = best_ask_key(asks)
            /\ pc' = "buy_level"
       ELSE /\ pc' = "buy_park"
            /\ UNCHANGED best_price
    /\ UNCHANGED <<bids, asks, order, next_id, incoming, bids0, asks0, fills, submitted, total_traded>>

\* one iteration of the inner while: one trade step
match_buy_trade ==
    /\ pc = "buy_level"
    /\ order.quantity > 0
    /\ asks[best_price] # <<>>
    /\ LET orders_at_level == asks[best_price]
           best_ask  == orders_at_level[front_mut(orders_at_level)]
           trade_qty == min(order.quantity, best_ask.quantity)
           no        == order.quantity - trade_qty
           nq        == best_ask.quantity - trade_qty
       IN  IF Underflows(order.quantity, trade_qty) \/ Underflows(best_ask.quantity, trade_qty)
           THEN /\ pc' = "overflow"
                /\ UNCHANGED <<bids, asks, order, fills, total_traded>>
           ELSE /\ order' = [order EXCEPT !.quantity = no]
                /\ asks' = [asks EXCEPT ![best_price] = queue_after_trade(orders_at_level, nq)]
                /\ fills' = Append(fills, Fill("Sell", orders_at_level, order, trade_qty, nq, no, asks))
                /\ total_traded' = total_traded + trade_qty
                /\ UNCHANGED <<bids, pc>>
    /\ UNCHANGED <<best_price, next_id, incoming, bids0, asks0, submitted>>

\* exit of the inner while, then removal of the level if it is empty
match_buy_cleanup ==
    /\ pc = "buy_level"
    /\ ~(order.quantity > 0 /\ asks[best_price] # <<>>)
    /\ asks' = IF level_exhausted(asks[best_price]) THEN MapRemove(asks, best_price) ELSE asks
    /\ pc' = "buy_loop"
    /\ UNCHANGED <<bids, order, best_price, next_id, incoming, bids0, asks0, fills, submitted, total_traded>>

\* mutant: the remainder of a Buy is parked among the asks
match_buy_park_asks ==
    /\ pc = "buy_park"
    /\ asks' = IF has_remainder(order) THEN park(asks, order) ELSE asks
    /\ pc' = "idle"
    /\ UNCHANGED <<bids, order, best_price, next_id, incoming, bids0, asks0, fills, submitted, total_traded>>

\* after the outer while: park the remainder, return
match_buy_park ==
    /\ pc = "buy_park"
    /\ bids' = IF has_remainder(order) THEN park(bids, order) ELSE bids
    /\ pc' = "idle"
    /\ UNCHANGED <<asks, order, best_price, next_id, incoming, bids0, asks0, fills, submitted, total_traded>>

\* ---- match_sell_order ----

match_sell_peek ==
    /\ pc = "sell_loop"
    /\ IF order.quantity > 0 /\ DOMAIN bids # {}
          /\ ~bid_too_low(best_bid_key(bids), order.price)
       THEN /\ best_price' = best_bid_key(bids)
            /\ pc' = "sell_level"
       ELSE /\ pc' = "sell_park"
            /\ UNCHANGED best_price
    /\ UNCHANGED <<bids, asks, order, next_id, incoming, bids0, asks0, fills, submitted, total_traded>>

match_sell_trade ==
    /\ pc = "sell_level"
    /\ order.quantity > 0
    /\ bids[best_price] # <<>>
    /\ LET orders_at_level == bids[best_price]
           best_bid  == orders_at_level[front_mut(orders_at_level)]
           trade_qty == min(order.quantity, best_bid.quantity)
           no        == order.quantity - trade_qty
           nq        == best_bid.quantity - trade_qty
       IN  IF Underflows(order.quantity, trade_qty) \/ Underflows(best_bid.quantity, trade_qty)
           THEN /\ pc' = "overflow"
                /\ UNCHANGED <<bids, asks, order, fills, total_traded>>
           ELSE /\ order' = [order EXCEPT !.quantity = no]
                /\ bids' = [bids EXCEPT ![best_price] = queue_after_trade(orders_at_level, nq)]
                /\ fills' = Append(fills, Fill("Buy", orders_at_level, order, trade_qty, nq, no, bids))
                /\ total_traded' = total_traded + trade_qty
                /\ UNCHANGED <<asks, pc>>
    /\ UNCHANGED <<best_price, next_id, incoming, bids0, asks0, submitted>>

match_sell_cleanup ==
    /\ pc = "sell_level"
    /\ ~(order.quantity > 0 /\ bids[best_price] # <<>>)
    /\ bids' = IF level_exhausted(bids[best_price]) THEN MapRemove(bids, best_price) ELSE bids
    /\ pc' = "sell_loop"
    /\ UNCHANGED <<asks, order, best_price, next_id, incoming, bids0, asks0, fills, submitted, total_traded>>

match_sell_park ==
    /\ pc = "sell_park"
    /\ asks' = IF has_remainder(order) THEN park(asks, order) ELSE asks
    /\ pc' = "idle"
    /\ UNCHANGED <<bids, order, best_price, next_id, incoming, bids0, asks0, fills, submitted, total_traded>>

Next ==
    \/ Submit
    \/ match_buy_peek
    \/ match_buy_trade
    \/ match_buy_cleanup
    \/ match_buy_park
    \/ match_sell_peek
    \/ match_sell_trade
    \/ match_sell_cleanup
    \/ match_sell_park

Spec == Init /\ [][Next]_vars

\* a step of the running call.  add_order is an ordinary synchronous call:
\* once entered it runs on until it returns, so a call that can take a step
\* does take it.
MatchStep ==
    \/ match_buy_peek
    \/ match_buy_trade
    \/ match_buy_cleanup
    \/ match_buy_park
    \/ match_sell_peek
    \/ match_sell_trade
    \/ match_sell_cleanup
    \/ match_sell_park

\* the driver bounded for the checks of termination
SubmitFair ==
    /\ next_id < MaxFairOrders
    /\ \E t \in {"Buy", "Sell"}, p \in Prices, q \in Quantities :
          add_order([id |-> next_id, order_type |-> t, price |-> p, quantity |-> q])

FairNext ==
    \/ SubmitFair
    \/ MatchStep

FairSpec == Init /\ [][FairNext]_vars /\ WF_vars(MatchStep)

\* the driver handing in any u32 quantity the model holds, 0 included:
\* add_order has no validation in front of it
SubmitAny ==
    /\ next_id < MaxAnyOrders
    /\ \E t \in {"Buy", "Sell"}, p \in Prices, q \in 0..MaxQty :
          add_order([id |-> next_id, order_type |-> t, price |-> p, quantity |-> q])

AnyNext ==
    \/ SubmitAny
    \/ MatchStep

AnySpec == Init /\ [][AnyNext]_vars

\* ---- add_order as a function of the book ----
\* The same code read as a function: the inner while, the outer while of
\* each routine, the parking code, and the driver's loop over a sequence of
\* orders.  A run is [bids, asks, fills], fills being the trade steps of
\* the last call as (resting id, traded amount).

\* the inner while (lines 67-81 / 117-127) on one queue
RECURSIVE level_loop(_, _, _)
level_loop(q, qty, fs) ==
    IF qty > 0 /\ q # <<>>
    THEN LET resting   == q[front_mut(q)]
             trade_qty == min(qty, resting.quantity)
         IN  level_loop(queue_after_trade(q, resting.quantity - trade_qty),
                        qty - trade_qty,
                        Append(fs, [maker |-> resting.id, trade_qty |-> trade_qty]))
    ELSE [q |-> q, qty |-> qty, fs |-> fs]

\* one pass of an outer while after the price check: trade at level p,
\* then drop the level if it is empty
level_pass(m, p, qty, fs) ==
    LET r  == level_loop(m[p], qty, fs)
        m1 == [m EXCEPT ![p] = r.q]
    IN  [m   |-> IF level_exhausted(m1[p]) THEN MapRemove(m1, p) ELSE m1,
         qty |-> r.qty,
         fs  |-> r.fs]

\* the outer while of match_buy_order (lines 49-87)
RECURSIVE buy_loop(_, _, _, _)
buy_loop(a, price, qty, fs) ==
    IF qty > 0 /\ DOMAIN a # {} /\ ~ask_too_expensive(best_ask_key(a), price)
    THEN LET r == level_pass(a, best_ask_key(a), qty, fs)
         IN  buy_loop(r.m, price, r.qty, r.fs)
    ELSE [m |-> a, qty |-> qty, fs |-> fs]

\* the outer while of match_sell_order (lines 100-132)
RECURSIVE sell_loop(_, _, _, _)
sell_loop(b, price, qty, fs) ==
    IF qty > 0 /\ DOMAIN b # {} /\ ~bid_too_low(best_bid_key(b), price)
    THEN LET r == level_pass(b, best_bid_key(b), qty, fs)
         IN  sell_loop(r.m, price, r.qty, r.fs)
    ELSE [m |-> b, qty |-> qty, fs |-> fs]

\* add_order on a book (lines 38-43, with the parking code of each routine)
add_order_to(book, o) ==
    IF o.order_type = "Buy"
    THEN LET r    == buy_loop(book.asks, o.price, o.quantity, <<>>)
             left == [o EXCEPT !.quantity = r.qty]
         IN  [bids  |-> IF has_remainder(left) THEN park(book.bids, left) ELSE book.bids,
              asks  |-> r.m,
              fills |-> r.fs]
    ELSE LET r    == sell_loop(book.bids, o.price, o.quantity, <<>>)
             left == [o EXCEPT !.quantity = r.qty]
         IN  [bids  |-> r.m,
              asks  |-> IF has_remainder(left) THEN park(book.asks, left) ELSE book.asks,
              fills |-> r.fs]

\* main's loop over a sequence of orders, from OrderBook::new()
RECURSIVE run_orders(_)
run_orders(os) ==
    IF os = <<>>
    THEN [bids |-> EmptyMap, asks |-> EmptyMap, fills |-> <<>>]
    ELSE add_order_to(run_orders(SubSeq(os, 1, Len(os) - 1)), os[Len(os)])

\* ======================================================================
\* Properties
\* ======================================================================

\* the orders resting in one side of the book, and their ids
OrdersOf(m) == UNION {{m[p][i] : i \in 1..Len(m[p])} : p \in DOMAIN m}
IdsOf(m)    == {o.id : o \in OrdersOf(m)}

\* the quantity an id rests with in one side, 0 when it is not there
QtyOf(m, id) ==
    IF id \in IdsOf(m) THEN (CHOOSE o \in OrdersOf(m) : o.id = id).quantity ELSE 0

\* an add_order call has returned
Returned == pc = "idle" /\ next_id > 0

\* the side the incoming order trades against, now and when the call began
OppSide  == IF incoming.order_type = "Buy" THEN asks  ELSE bids
OppSide0 == IF incoming.order_type = "Buy" THEN asks0 ELSE bids0
OwnSide  == IF incoming.order_type = "Buy" THEN bids  ELSE asks
OwnSide0 == IF incoming.order_type = "Buy" THEN bids0 ELSE asks0

\* the incoming order of the last call rests in the book
Parked == incoming.id \in IdsOf(OwnSide)

\* ---- C1 ----
\* C1: no-cross invariant.  Whenever an add_order call has returned, the
\* bid side is empty, or the ask side is empty, or the highest bid price is
\* strictly below the lowest ask price; and every resting bid price is
\* strictly below every resting ask price.
C1_NoCross ==
    Returned =>
        /\ \/ DOMAIN bids = {}
           \/ DOMAIN asks = {}
           \/ SetMax(DOMAIN bids) < SetMin(DOMAIN asks)
        /\ \A b \in OrdersOf(bids), a \in OrdersOf(asks) : b.price < a.price

\* a call that traded has returned and left orders on both sides
C1_Witness ==
    /\ Returned
    /\ fills # <<>>
    /\ OrdersOf(bids) # {}
    /\ OrdersOf(asks) # {}

\* ---- C2 ----
\* C2: limit-price rule.  Every trade step of a Buy with limit P is against
\* a resting ask priced <= P, every trade step of a Sell with limit P is
\* against a resting bid priced >= P, and an order whose limit equals the
\* best opposing price when the call begins does trade, at that price.
C2_LimitPrice ==
    /\ \A i \in 1..Len(fills) :
          /\ incoming.order_type = "Buy"  => fills[i].side = "Sell" /\ fills[i].price <= incoming.price
          /\ incoming.order_type = "Sell" => fills[i].side = "Buy"  /\ fills[i].price >= incoming.price
    /\ (Returned /\ DOMAIN OppSide0 # {}) =>
          /\ (incoming.order_type = "Buy" /\ SetMin(DOMAIN asks0) = incoming.price)
                => (fills # <<>> /\ fills[1].price = incoming.price)
          /\ (incoming.order_type = "Sell" /\ SetMax(DOMAIN bids0) = incoming.price)
                => (fills # <<>> /\ fills[1].price = incoming.price)

\* a Buy has traded below its limit and then exactly at its limit
C2_Witness ==
    /\ incoming.order_type = "Buy"
    /\ Len(fills) >= 2
    /\ fills[1].price < incoming.price
    /\ fills[Len(fills)].price = incoming.price

\* ---- C3 ----
\* C3: price priority across levels.  Each trade step of a Buy is at the
\* lowest ask price in the book at that moment, each trade step of a Sell
\* at the highest bid price; the prices traded within one call never go
\* back (rising for a Buy, falling for a Sell); and no level better than a
\* price already traded in the call is left on the opposing side.
C3_PricePriority ==
    /\ \A i \in 1..Len(fills) :
          /\ fills[i].price \in fills[i].opp_keys
          /\ incoming.order_type = "Buy"  => fills[i].price = SetMin(fills[i].opp_keys)
          /\ incoming.order_type = "Sell" => fills[i].price = SetMax(fills[i].opp_keys)
    /\ \A i, j \in 1..Len(fills) :
          i < j =>
             /\ incoming.order_type = "Buy"  => fills[i].price <= fills[j].price
             /\ incoming.order_type = "Sell" => fills[i].price >= fills[j].price
    /\ \A i \in 1..Len(fills) : \A o \in OrdersOf(OppSide) :
          /\ incoming.order_type = "Buy"  => o.price >= fills[i].price
          /\ incoming.order_type = "Sell" => o.price <= fills[i].price

\* a Sell has traded at two bid levels, the higher one first
C3_Witness ==
    /\ incoming.order_type = "Sell"
    /\ Len(fills) >= 2
    /\ fills[1].price > fills[Len(fills)].price

\* ---- C4 ----
\* FIFO over one side across one step: for two orders resting at the same
\* price, the earlier submitted (lower id) A and the later B, B's quantity
\* is still its full quantity after the step unless A has left the book.
FifoStep(m, mNext) ==
    \A A, B \in OrdersOf(m) :
        (A.price = B.price /\ A.id < B.id /\ QtyOf(mNext, B.id) < B.quantity)
            => A.id \notin IdsOf(mNext)

\* C4: FIFO fairness.  No step reduces the quantity of a resting order B
\* while an order A submitted earlier at the same price on the same side is
\* still in the book: A is filled to zero and removed before B is touched.
C4_Fifo == [][FifoStep(bids, bids') /\ FifoStep(asks, asks')]_vars

\* A and B rested at one price when the call began; the call consumed A
\* entirely and filled B only in part
C4_Witness ==
    /\ Returned
    /\ \E A, B \in OrdersOf(OppSide0) :
          /\ A.price = B.price
          /\ A.id < B.id
          /\ A.id \notin IdsOf(OppSide)
          /\ B.id \in IdsOf(OppSide)
          /\ QtyOf(OppSide, B.id) < B.quantity

\* ---- C5 ----
\* the total amount traded by the running/last call
RECURSIVE SumTraded(_)
SumTraded(fs) == IF fs = <<>> THEN 0 ELSE Head(fs).trade_qty + SumTraded(Tail(fs))

\* the opposing side holds an order the incoming order's price crosses
StillCrossing ==
    \E o \in OrdersOf(OppSide) :
        \/ incoming.order_type = "Buy"  /\ o.price <= incoming.price
        \/ incoming.order_type = "Sell" /\ o.price >= incoming.price

\* C5: an order is never parked while it could still trade.  When a call
\* has returned with the incoming order parked, the opposing side is empty
\* or its best price does not cross; when the opposing side still holds a
\* crossing order, the incoming order was filled in full and is not parked.
C5_StopReasons ==
    Returned =>
        /\ Parked =>
              \/ DOMAIN OppSide = {}
              \/ incoming.order_type = "Buy"  /\ SetMin(DOMAIN asks) > incoming.price
              \/ incoming.order_type = "Sell" /\ SetMax(DOMAIN bids) < incoming.price
        /\ StillCrossing =>
              /\ ~Parked
              /\ SumTraded(fills) = incoming.quantity

\* a Sell traded, was parked with a remainder, and bids it does not cross
\* are left
C5_Witness ==
    /\ Returned
    /\ incoming.order_type = "Sell"
    /\ fills # <<>>
    /\ Parked
    /\ DOMAIN bids # {}

\* ---- C6 ----
\* the aggregate quantity of one queue
RECURSIVE LevelQty(_)
LevelQty(q) == IF q = <<>> THEN 0 ELSE Head(q).quantity + LevelQty(Tail(q))

\* C6: level cleanup.  Whenever a call has returned, every price key of
\* either side has a non-empty queue with positive aggregate quantity, and
\* the level emptied by the last trade step of the call is gone.
C6_LevelCleanup ==
    Returned =>
        /\ \A p \in DOMAIN bids : bids[p] # <<>> /\ LevelQty(bids[p]) > 0
        /\ \A p \in DOMAIN asks : asks[p] # <<>> /\ LevelQty(asks[p]) > 0
        /\ \A i \in 1..Len(fills) :
              (fills[i].price \in DOMAIN OppSide) =>
                  \E o \in OrdersOf(OppSide) : o.price = fills[i].price

\* the last trade step filled the incoming order and emptied the level at
\* once, and the level's key is no longer in the book
C6_Witness ==
    /\ Returned
    /\ fills # <<>>
    /\ fills[Len(fills)].taker_after = 0
    /\ fills[Len(fills)].maker_after = 0
    /\ fills[Len(fills)].price \in DOMAIN OppSide0
    /\ fills[Len(fills)].price \notin DOMAIN OppSide

\* ---- C7 ----
\* C7: in every state every order resting on either side has quantity > 0
\* (a resting order reduced to zero leaves its queue in the same trade
\* step), and an incoming order that is parked rests with a quantity > 0.
C7_RestingPositive ==
    /\ \A o \in OrdersOf(bids) \cup OrdersOf(asks) : o.quantity > 0
    /\ (Returned /\ Parked) => QtyOf(OwnSide, incoming.id) > 0

\* a call removed a resting order it filled to zero and parked its own
\* remainder
C7_Witness ==
    /\ Returned
    /\ fills # <<>>
    /\ fills[Len(fills)].maker_after = 0
    /\ fills[Len(fills)].maker \notin IdsOf(OppSide)
    /\ Parked

\* ---- C8 ----
\* the next step is a trade step: the inner while is entered
TradeEnabled ==
    /\ pc \in {"buy_level", "sell_level"}
    /\ order.quantity > 0
    /\ (IF pc = "buy_level" THEN asks ELSE bids)[best_price] # <<>>

\* what one trade step does to the two quantities
TradeStepConserves ==
    LET opp     == IF pc = "buy_level" THEN asks  ELSE bids
        oppNext == IF pc = "buy_level" THEN asks' ELSE bids'
        resting == Head(opp[best_price])
        traded  == IF order.quantity <= resting.quantity
                   THEN order.quantity ELSE resting.quantity
    IN  /\ pc' # "overflow"
        /\ traded >= 1
        /\ order.quantity - order'.quantity = traded
        /\ resting.quantity - QtyOf(oppNext, resting.id) = traded
        /\ order'.quantity >= 0
        /\ QtyOf(oppNext, resting.id) >= 0
        /\ Len(fills') = Len(fills) + 1
        /\ fills'[Len(fills')].trade_qty = traded

\* C8: quantity conservation per trade step.  Each trade step trades
\* min(incoming remaining, front resting remaining), which is at least 1,
\* takes exactly that amount off both orders, and leaves neither quantity
\* below zero (the u32 subtraction never leaves its range).
C8_Conservation == [][TradeEnabled => TradeStepConserves]_vars

\* one call traded first against a smaller resting order, then against a
\* larger one
C8_Witness ==
    /\ Len(fills) >= 2
    /\ fills[1].maker_before < fills[1].taker_before
    /\ fills[1].trade_qty = fills[1].maker_before
    /\ fills[Len(fills)].taker_before < fills[Len(fills)].maker_before
    /\ fills[Len(fills)].trade_qty = fills[Len(fills)].taker_before
    /\ fills[Len(fills)].maker_after > 0

\* ---- C9 ----
\* the incoming order did not cross the opposing side when the call began
NonCrossing0 ==
    \/ DOMAIN OppSide0 = {}
    \/ incoming.order_type = "Buy"  /\ SetMin(DOMAIN asks0) > incoming.price
    \/ incoming.order_type = "Sell" /\ SetMax(DOMAIN bids0) < incoming.price

\* C9: no-op on non-crossing orders.  When a call whose order did not cross
\* has returned, no trade step was made, the opposing side is as it was,
\* every other level of the own side is as it was, and the queue at the
\* order's price is its old queue (empty if the level was absent) followed
\* by the order exactly as submitted.
C9_NonCrossingNoop ==
    (Returned /\ NonCrossing0) =>
        /\ fills = <<>>
        /\ OppSide = OppSide0
        /\ DOMAIN OwnSide = DOMAIN OwnSide0 \cup {incoming.price}
        /\ \A p \in DOMAIN OwnSide0 : p # incoming.price => OwnSide[p] = OwnSide0[p]
        /\ OwnSide[incoming.price] =
              (IF incoming.price \in DOMAIN OwnSide0 THEN OwnSide0[incoming.price] ELSE <<>>)
                 \o <<incoming>>

\* a non-crossing Buy joined a level that already held an order, with asks
\* resting above it
C9_Witness ==
    /\ Returned
    /\ NonCrossing0
    /\ incoming.order_type = "Buy"
    /\ DOMAIN asks0 # {}
    /\ incoming.price \in DOMAIN bids0
    /\ Len(bids[incoming.price]) >= 2

\* ---- C10 ----
\* C10: exact exhaustion.  When a call has returned and its trade steps
\* add up to the incoming quantity, the incoming id is on neither side; if
\* the last trade step also took the resting order to zero, that order is
\* gone, and its level is gone unless other orders rest there.
C10_ExactExhaustion ==
    (Returned /\ fills # <<>>) =>
        LET last == fills[Len(fills)]
        IN  /\ (last.taker_after = 0 \/ SumTraded(fills) = incoming.quantity) =>
                  /\ incoming.id \notin IdsOf(bids) \cup IdsOf(asks)
                  /\ OwnSide = OwnSide0
            /\ (last.taker_after = 0 /\ last.maker_after = 0) =>
                  /\ last.maker \notin IdsOf(OppSide)
                  /\ \/ last.price \notin DOMAIN OppSide
                     \/ \E o \in OrdersOf(OppSide) : o.price = last.price /\ o.id # last.maker

\* one trade step took both orders to zero; the resting order was the last
\* of its level and the own side has no level at the incoming price
C10_Witness ==
    /\ Returned
    /\ fills # <<>>
    /\ fills[Len(fills)].taker_after = 0
    /\ fills[Len(fills)].maker_after = 0
    /\ fills[Len(fills)].price \notin DOMAIN OppSide
    /\ incoming.price \notin DOMAIN OwnSide
    /\ DOMAIN OwnSide # {}

\* ---- C11 ----
\* C11: parking the remainder.  When a call has returned having traded
\* T < Q in total, the queue at the order's price on its own side is the
\* old queue (empty if the level was absent) followed by one order with the
\* original id, side and price and quantity Q - T; every other level of
\* the own side is as it was, and the only id new to the book is the
\* incoming one, on its own side.
C11_ParkRemainder ==
    (Returned /\ SumTraded(fills) < incoming.quantity) =>
        LET rem == [ id         |-> incoming.id,
                     order_type |-> incoming.order_type,
                     price      |-> incoming.price,
                     quantity   |-> incoming.quantity - SumTraded(fills) ]
            old == IF incoming.price \in DOMAIN OwnSide0
                   THEN OwnSide0[incoming.price] ELSE <<>>
        IN  /\ DOMAIN OwnSide = DOMAIN OwnSide0 \cup {incoming.price}
            /\ OwnSide[incoming.price] = old \o <<rem>>
            /\ \A p \in DOMAIN OwnSide0 : p # incoming.price => OwnSide[p] = OwnSide0[p]
            /\ incoming.id \notin IdsOf(OppSide)
            /\ (IdsOf(bids) \cup IdsOf(asks)) \ (IdsOf(bids0) \cup IdsOf(asks0)) = {incoming.id}

\* a call traded part of its order and parked the rest
C11_Witness ==
    /\ Returned
    /\ SumTraded(fills) > 0
    /\ SumTraded(fills) < incoming.quantity
    /\ QtyOf(OwnSide, incoming.id) = incoming.quantity - SumTraded(fills)

\* ---- C12 ----
\* q is q0 with some orders taken off its front and the quantity of the
\* order then at the front possibly reduced
IsReducedSuffix(q0, q) ==
    /\ Len(q) <= Len(q0)
    /\ \A i \in 1..Len(q) :
          LET o0 == q0[Len(q0) - Len(q) + i]
          IN  /\ q[i].id = o0.id
              /\ q[i].order_type = o0.order_type
              /\ q[i].price = o0.price
              /\ q[i].quantity <= o0.quantity
              /\ i > 1 => q[i].quantity = o0.quantity

\* p2 is a better opposing price than p for the incoming order
BetterOpp(p2, p) ==
    \/ incoming.order_type = "Buy"  /\ p2 < p
    \/ incoming.order_type = "Sell" /\ p2 > p

\* C12: side-effect frame.  During and after a call, every order that
\* rested on the incoming order's own side is where it was with the
\* quantity it had, and the own side differs from its old value at most by
\* the incoming order appended at its price; every queue of the opposing
\* side is its old queue with orders taken off the front and the front
\* quantity reduced, no opposing key is new, and a changed opposing level
\* has no better level left; a fully filled order leaves its own side as
\* it was.
C12_Frame ==
    /\ \A p \in DOMAIN OwnSide0 :
          /\ p \in DOMAIN OwnSide
          /\ Len(OwnSide[p]) >= Len(OwnSide0[p])
          /\ SubSeq(OwnSide[p], 1, Len(OwnSide0[p])) = OwnSide0[p]
    /\ \/ OwnSide = OwnSide0
       \/ /\ DOMAIN OwnSide = DOMAIN OwnSide0 \cup {incoming.price}
          /\ \A p \in DOMAIN OwnSide0 : p # incoming.price => OwnSide[p] = OwnSide0[p]
          /\ Len(OwnSide[incoming.price]) =
                1 + (IF incoming.price \in DOMAIN OwnSide0 THEN Len(OwnSide0[incoming.price]) ELSE 0)
          /\ OwnSide[incoming.price][Len(OwnSide[incoming.price])].id = incoming.id
    /\ \A p \in DOMAIN OppSide :
          p \in DOMAIN OppSide0 /\ IsReducedSuffix(OppSide0[p], OppSide[p])
    /\ \A p \in DOMAIN OppSide0 :
          (p \notin DOMAIN OppSide \/ OppSide[p] # OppSide0[p]) =>
              \A p2 \in DOMAIN OppSide0 : BetterOpp(p2, p) => p2 \notin DOMAIN OppSide
    /\ (Returned /\ SumTraded(fills) = incoming.quantity) =>
          /\ OwnSide = OwnSide0
          /\ DOMAIN OwnSide = DOMAIN OwnSide0

\* a Buy was filled in full against part of the best ask while bids were
\* resting: the bids are as they were, the ask is reduced in place
C12_Witness ==
    /\ Returned
    /\ incoming.order_type = "Buy"
    /\ DOMAIN bids0 # {}
    /\ bids = bids0
    /\ fills # <<>>
    /\ fills[Len(fills)].maker_after > 0
    /\ QtyOf(asks, fills[Len(fills)].maker) = fills[Len(fills)].maker_after
    /\ incoming.price \notin DOMAIN bids

\* ---- C13 ----
\* one trade step removes a resting order or fills the incoming order
TradeStepProgress ==
    LET opp     == IF pc = "buy_level" THEN asks  ELSE bids
        oppNext == IF pc = "buy_level" THEN asks' ELSE bids'
    IN  \/ /\ Cardinality(OrdersOf(oppNext)) = Cardinality(OrdersOf(opp)) - 1
           /\ Head(opp[best_price]).id \notin IdsOf(oppNext)
        \/ order'.quantity = 0

\* C13: termination and step bound.  Every call that has begun returns;
\* the number of trade steps of a call never exceeds the number of orders
\* that rested on the opposing side when it began; and every trade step
\* removes one resting order or takes the incoming order to zero.
C13_Termination ==
    /\ [](Len(fills) <= Cardinality(OrdersOf(OppSide0)))
    /\ [][TradeEnabled => TradeStepProgress]_vars
    /\ ((pc # "idle") ~> (pc = "idle"))

\* a call has returned after as many trade steps as there were opposing
\* orders, more than one
C13_Witness ==
    /\ Returned
    /\ Len(fills) >= 2
    /\ Len(fills) = Cardinality(OrdersOf(OppSide0))

\* ---- C14 ----
\* the mirror image of an order, a queue, one side of the book, a sequence
MirrorPrice(p) == MaxPrice + 1 - p
MirrorOrder(o) ==
    [ id         |-> o.id,
      order_type |-> IF o.order_type = "Buy" THEN "Sell" ELSE "Buy",
      price      |-> MirrorPrice(o.price),
      quantity   |-> o.quantity ]
MirrorQueue(q) == [i \in 1..Len(q) |-> MirrorOrder(q[i])]
MirrorMap(m) ==
    [p \in {MirrorPrice(k) : k \in DOMAIN m} |-> MirrorQueue(m[MirrorPrice(p)])]

\* the trade steps of the last call as (resting id, traded amount)
FillPairs == [i \in 1..Len(fills) |-> [maker |-> fills[i].maker, trade_qty |-> fills[i].trade_qty]]

\* C14: sell-side matching mirrors buy-side matching.  Whenever a call has
\* returned, submitting the mirrored orders (same id and quantity, opposite
\* side, price P+1-p) to an empty book gives the mirrored book - bids and
\* asks exchanged, prices mirrored, every queue with the same ids and
\* quantities in the same order - and the same trade steps in the last
\* call; the book itself is the one the submitted orders give.
C14_Mirror ==
    Returned =>
        LET direct   == run_orders(submitted)
            mirrored == run_orders(MirrorQueue(submitted))
        IN  /\ direct.bids = bids
            /\ direct.asks = asks
            /\ direct.fills = FillPairs
            /\ mirrored.bids = MirrorMap(asks)
            /\ mirrored.asks = MirrorMap(bids)
            /\ mirrored.fills = FillPairs

\* a Sell traded across two bid levels and was parked, next to an older
\* ask: the mirrored run is a Buy doing the same on the ask side
C14_Witness ==
    /\ Returned
    /\ incoming.order_type = "Sell"
    /\ Len(fills) >= 2
    /\ fills[1].price # fills[Len(fills)].price
    /\ DOMAIN asks # {}
    /\ DOMAIN bids # {}

\* ---- C15 ----
\* the position of an id in a queue that holds it
PosIn(q, id) == CHOOSE i \in 1..Len(q) : q[i].id = id

\* every queue of one side is in submission order: an order nearer the
\* front was handed to add_order earlier
InArrivalOrder(m) ==
    \A p \in DOMAIN m : \A i, j \in 1..Len(m[p]) :
        i < j =>
            \E a, b \in 1..Len(submitted) :
                /\ a < b
                /\ submitted[a].id = m[p][i].id
                /\ submitted[b].id = m[p][j].id

\* two orders that share a level before and after a step keep their order
KeepsOrder(m, mNext) ==
    \A p \in (DOMAIN m) \cap (DOMAIN mNext) : \A i, j \in 1..Len(m[p]) :
        (i < j /\ m[p][i].id \in IdsOf(mNext) /\ m[p][j].id \in IdsOf(mNext)) =>
            /\ \E k \in 1..Len(mNext[p]) : mNext[p][k].id = m[p][i].id
            /\ \E k \in 1..Len(mNext[p]) : mNext[p][k].id = m[p][j].id
            /\ PosIn(mNext[p], m[p][i].id) < PosIn(mNext[p], m[p][j].id)

\* a resting order left partly filled by the running/last call is at the
\* front of its queue with the reduced quantity, and the first trade step
\* of a call is against the order that was at the front of its queue
PartialStaysFront ==
    /\ \A i \in 1..Len(fills) :
          fills[i].maker_after > 0 =>
              /\ fills[i].price \in DOMAIN OppSide
              /\ OppSide[fills[i].price] # <<>>
              /\ Head(OppSide[fills[i].price]).id = fills[i].maker
              /\ Head(OppSide[fills[i].price]).quantity = fills[i].maker_after
    /\ fills # <<>> =>
          Head(OppSide0[fills[1].price]).id = fills[1].maker

\* C15: time order inside a level.  In every state every queue is in
\* submission order; no step changes the relative order of two orders of a
\* level; and a partly filled resting order stays at the front of its
\* queue with its reduced quantity, where the next call trading at that
\* price meets it first.
C15_TimeOrder ==
    /\ [](InArrivalOrder(bids) /\ InArrivalOrder(asks) /\ PartialStaysFront)
    /\ [][KeepsOrder(bids, bids') /\ KeepsOrder(asks, asks')]_vars

\* an order partly filled by an earlier call, with a later order queued
\* behind it, is the first one traded by the call that has just returned
C15_Witness ==
    /\ Returned
    /\ fills # <<>>
    /\ Len(OppSide0[fills[1].price]) >= 2
    /\ \E a \in 1..Len(submitted) :
          /\ submitted[a].id = fills[1].maker
          /\ fills[1].maker_before < submitted[a].quantity
    /\ fills[1].maker_after > 0

\* ---- C16 ----
\* the places of the book: side, price key, position in the queue
Occupied ==
    UNION ({{<<"Buy", p, i>>  : i \in 1..Len(bids[p])} : p \in DOMAIN bids} \cup
           {{<<"Sell", p, i>> : i \in 1..Len(asks[p])} : p \in DOMAIN asks})
OrderAt(e) == (IF e[1] = "Buy" THEN bids ELSE asks)[e[2]][e[3]]

\* each id is at one place at most; a bid level keyed p holds Buy orders
\* priced p, an ask level keyed p Sell orders priced p; every resting
\* order is one of the submitted orders with no more than its quantity
WellPlaced ==
    LET occ == Occupied
    IN  /\ \A e1, e2 \in occ : OrderAt(e1).id = OrderAt(e2).id => e1 = e2
        /\ \A e \in occ :
              LET o == OrderAt(e)
              IN  /\ o.order_type = e[1]
                  /\ o.price = e[2]
                  /\ \E a \in 1..Len(submitted) :
                        /\ submitted[a].id = o.id
                        /\ submitted[a].order_type = o.order_type
                        /\ submitted[a].price = o.price
                        /\ submitted[a].quantity >= o.quantity

\* across one step: a resting order that stays keeps its side and keeps or
\* lowers its quantity, and an id that is out of the book, its call over,
\* stays out
QuantityFalls ==
    LET nextBids == OrdersOf(bids')
        nextAsks == OrdersOf(asks')
    IN  /\ \A o \in OrdersOf(bids) :
              /\ \A n \in nextBids : n.id = o.id => n.quantity <= o.quantity
              /\ \A n \in nextAsks : n.id # o.id
        /\ \A o \in OrdersOf(asks) :
              /\ \A n \in nextAsks : n.id = o.id => n.quantity <= o.quantity
              /\ \A n \in nextBids : n.id # o.id
NoReturn ==
    LET here == IdsOf(bids) \cup IdsOf(asks)
        next == IdsOf(bids') \cup IdsOf(asks')
    IN  \A a \in 1..Len(submitted) :
            ( /\ submitted[a].id \notin here
              /\ ~(pc # "idle" /\ submitted[a].id = incoming.id) )
                => submitted[a].id \notin next

\* C16: single live copy and well-formed placement.  With the unique ids
\* the driver assigns, in every state each id occurs at most once in the
\* book and every order sits in the level of its own side and price; no
\* step raises a resting order's quantity; and an id that has left the
\* book never comes back.
C16_SingleCopy ==
    /\ []WellPlaced
    /\ [][QuantityFalls /\ NoReturn]_vars

\* one call removed a resting order and left another with a reduced
\* quantity, while orders rest on both sides
C16_Witness ==
    /\ Returned
    /\ \E i \in 1..Len(fills) :
          fills[i].maker_after = 0 /\ fills[i].maker \notin IdsOf(bids) \cup IdsOf(asks)
    /\ \E e \in Occupied : \E a \in 1..Len(submitted) :
          submitted[a].id = OrderAt(e).id /\ OrderAt(e).quantity < submitted[a].quantity
    /\ DOMAIN bids # {}
    /\ DOMAIN asks # {}

\* ---- C17 ----
\* the opposing orders the running/last call has left in the book with
\* less than the quantity they had when it began
LeftReduced ==
    {o \in OrdersOf(OppSide) : o.quantity < QtyOf(OppSide0, o.id)}

\* C17: at most one partial fill per call.  In every state every trade
\* step of the call but the last took its resting order to zero and that
\* order is out of the book; at most one opposing order is left reduced,
\* and it is the one of the last trade step; and when the call has
\* returned with its remainder parked, every resting order it traded with
\* is gone and none is left reduced.
C17_OnePartialFill ==
    /\ \A i \in 1..Len(fills) :
          i < Len(fills) =>
              /\ fills[i].maker_after = 0
              /\ fills[i].maker \notin IdsOf(OppSide)
    /\ Cardinality(LeftReduced) <= 1
    /\ \A o \in LeftReduced : fills # <<>> /\ o.id = fills[Len(fills)].maker
    /\ (Returned /\ Parked) =>
          /\ LeftReduced = {}
          /\ \A i \in 1..Len(fills) : fills[i].maker \notin IdsOf(OppSide)

\* a call removed one resting order and left the next one partly filled
C17_Witness ==
    /\ Returned
    /\ Len(fills) >= 2
    /\ Cardinality(LeftReduced) = 1
    /\ fills[1].maker \notin IdsOf(OppSide)
    /\ fills[Len(fills)].maker \in IdsOf(OppSide)

\* ---- C18 ----
\* the quantity submitted so far on one side
RECURSIVE SubmittedQty(_, _)
SubmittedQty(os, t) ==
    IF os = <<>> THEN 0
    ELSE (IF Head(os).order_type = t THEN Head(os).quantity ELSE 0) + SubmittedQty(Tail(os), t)

\* the quantity resting on one side
RECURSIVE RestingOver(_, _)
RestingOver(m, keys) ==
    IF keys = {} THEN 0
    ELSE LET p == CHOOSE k \in keys : TRUE
         IN  LevelQty(m[p]) + RestingOver(m, keys \ {p})
Resting(m) == RestingOver(m, DOMAIN m)

\* C18: global quantity conservation.  Whenever a call has returned, the
\* quantity of all submitted Buy orders less the quantity resting on the
\* bid side, and the quantity of all submitted Sell orders less the
\* quantity resting on the ask side, both equal the total traded so far;
\* and the last call, of quantity Q trading T, lowered the opposing side's
\* resting quantity by T and raised its own side's by Q - T.
C18_GlobalConservation ==
    Returned =>
        /\ SubmittedQty(submitted, "Buy")  - Resting(bids) = total_traded
        /\ SubmittedQty(submitted, "Sell") - Resting(asks) = total_traded
        /\ Resting(OppSide0) - Resting(OppSide) = SumTraded(fills)
        /\ Resting(OwnSide) - Resting(OwnSide0) = incoming.quantity - SumTraded(fills)

\* after earlier trades, a call traded part of its order and parked the
\* rest, with quantity resting on both sides
C18_Witness ==
    /\ Returned
    /\ SumTraded(fills) > 0
    /\ SumTraded(fills) < incoming.quantity
    /\ total_traded > SumTraded(fills)
    /\ Resting(bids) > 0
    /\ Resting(asks) > 0

\* ---- C19 ----
\* C19: zero-quantity input.  A call handed an order of quantity 0, of
\* either side and any price, makes no trade step, leaves both sides of
\* the book as they were in every state of the call, raises no error, and
\* has not parked the order when it has returned.
C19_ZeroQuantity ==
    incoming.quantity = 0 =>
        /\ pc # "overflow"
        /\ fills = <<>>
        /\ bids = bids0
        /\ asks = asks0
        /\ incoming.id \notin IdsOf(bids) \cup IdsOf(asks)

\* a call with quantity 0 has returned from a book holding orders on both
\* sides, one of them at a price the order crosses
C19_Witness ==
    /\ Returned
    /\ incoming.quantity = 0
    /\ StillCrossing
    /\ DOMAIN OwnSide # {}

====
